---- MODULE Spec2Model ----
(***************************************************************************)
(* The build pipeline of nargo's `compile` command                         *)
(* (crates/nargo_cli/src/cli/compile_cmd.rs): `run` folds one common       *)
(* reference string (CRS) through every circuit of a workspace, optimizing *)
(* each circuit for the backend, growing the CRS for it and preprocessing  *)
(* it into an artifact.                                                    *)
(*                                                                         *)
(* `run` is single-threaded; the model follows it with a program counter   *)
(* `pc`, one action per call it makes to a collaborator (frontend,         *)
(* optimizer, CRS manager, preprocessor, artifact writer).  The results of *)
(* the collaborators are drawn from small sets.                            *)
(***************************************************************************)
EXTENDS Integers, Sequences, FiniteSets, TLC

\* ------------------------------------------------------------------ bounds
\* Most packages in a workspace.
MaxPackages == 2
\* Most contract functions in a workspace (over all of its Contract packages).
MaxFunctions == 2
\* Most opcodes of a circuit; also the largest CRS capability.
MaxGates == 2

\* --------------------------------------------------------------- constants
\* const BACKEND_IDENTIFIER: &str = "acvm-backend-barretenberg";
BACKEND_IDENTIFIER == "acvm-backend-barretenberg"

\* The backends a build can be run with (`B: Backend` of `run`).
Backends == {"acvm-backend-barretenberg", "acvm-backend-other"}

\* PackageType of nargo::package, and what is_contract() / is_library() test.
PackageTypes == {"Binary", "Library", "Contract"}
is_contract(t) == t = "Contract"
\* compile_package without its is_library() check.
is_library_unchecked(t) == FALSE
is_library(t) == t = "Library"

VARIABLES
    package_type,             \* the type of the package of the for loop
    deny_warnings,            \* args.compile_options.deny_warnings
    backend,                  \* the backend `run` is called with
    cache,                    \* the cached CRS (on disk); 0 is "no cache"
    pc,                       \* where `run` is
    outcome,                  \* "running", "Ok", an error of `run`, or "panic"
    package,                  \* index of the package of the for loop (0 before it)
    common_reference_string,  \* the local of `run`: capability of the CRS in flight
    contracts,                \* contracts of the package not yet taken by try_vecmap
    contract,                 \* the contract of the outer closure (functions left)
    func,                     \* the function of the inner closure
    preprocessed_contract_functions, \* results of the inner try_vecmap so far
    preprocessed_contracts,   \* results of the outer try_vecmap so far
    program,                  \* the CompiledProgram of a Binary package
    files,                    \* artifacts written to the target directory, in order
    reported,                 \* diagnostics report_all got for this package: <<kind, deny_warnings>>
    trace,                    \* calls made for the circuit in hand, in order
    processed,                \* sizes of the circuits the optimizer has returned
    compiled,                 \* number of contract functions the frontend has returned
    latest_crs,               \* the CRS the latest successful update returned, or the loaded one
    opcode_labels,            \* the local of compile_package: labels the optimizer returned
    opcode_ids,               \* the local of compile_package: indices handed to update_acir
    unresolved,               \* whether the labels optimize_circuit has just returned had an Unresolved one
    frontend_contracts,       \* the contracts compile_contracts returned for this package
    crs_reads,                \* number of calls to read_cached_common_reference_string
    crs_writes,               \* number of calls to write_cached_common_reference_string
    cache_before              \* the cached CRS when the build started

vars == <<package_type, deny_warnings, backend, cache, pc, outcome, package,
          common_reference_string, contracts, contract, func,
          preprocessed_contract_functions, preprocessed_contracts, program,
          files, reported, trace, processed, compiled, latest_crs,
          opcode_labels, opcode_ids, unresolved, frontend_contracts,
          crs_reads, crs_writes, cache_before>>

\* ------------------------------------------------------------------- data
\* OpcodeLabel::Unresolved; OpcodeLabel::Resolved(index) is the index itself.
Unresolved == -1

\* A circuit: its number of opcodes and the pass that produced it.
FrontendCircuit(n) == [gates |-> n, pass |-> "frontend"]
OptimizedCircuit(m) == [gates |-> m, pass |-> "backend"]
NoCircuit == [gates |-> 0, pass |-> "none"]

\* The debug map the frontend emits for n opcodes: opcode i (from 0) is at
\* source location i.
FrontendDebug(n) == [i \in 1..n |-> i - 1]

NoFunc == [name |-> 0, bytecode |-> NoCircuit, debug |-> <<>>]
NoContract == [name |-> 0, functions |-> <<>>]
NoProgram == [circuit |-> NoCircuit, debug |-> <<>>]

Max(a, b) == IF a >= b THEN a ELSE b

RECURSIVE SumSeq(_)
SumSeq(s) == IF s = <<>> THEN 0 ELSE Head(s) + SumSeq(Tail(s))

HasUnresolved(labels) == \E j \in 1..Len(labels) : labels[j] = Unresolved

\* All sequences over S of length at most n.
SeqUpTo(S, n) == UNION {[1..k -> S] : k \in 0..n}


\* ------------------------------------------------------------ collaborators
\* compile_main: Err(errors), or Ok((program, warnings)) for a program of any
\* size; `warnings` is whether the list of warnings is non-empty.
compile_main ==
    {[ok |-> FALSE, warnings |-> FALSE, program |-> NoProgram]}
    \cup {[ok |-> TRUE, warnings |-> w,
           program |-> [circuit |-> FrontendCircuit(n), debug |-> FrontendDebug(n)]]
          : w \in BOOLEAN, n \in 1..MaxGates}

\* The contracts of one package with at most k functions, each contract
\* given by its number of functions: a contract has at least one function.
RECURSIVE ContractShapes(_)
ContractShapes(k) ==
    {<<>>} \cup UNION {{<<n>> \o rest : rest \in ContractShapes(k - n)} : n \in 1..k}

\* A compiled contract of n functions: its name and the names of its
\* functions.  `run` does not look at a function before try_vecmap hands it
\* to the closure, so the function's circuit is drawn there.
CompiledContract(c, n) == [name |-> c, functions |-> [f \in 1..n |-> f]]

\* The function f of a compiled contract, for a circuit of n opcodes.
ContractFunction(f, n) ==
    [name |-> f, bytecode |-> FrontendCircuit(n), debug |-> FrontendDebug(n)]

\* compile_contracts: Err(errors), or Ok((contracts, warnings)) for contracts
\* of at most k functions.
compile_contracts(k) ==
    {[ok |-> FALSE, warnings |-> FALSE, contracts |-> <<>>]}
    \cup {[ok |-> TRUE, warnings |-> w,
           contracts |-> [c \in 1..Len(s) |-> CompiledContract(c, s[c])]]
          : w \in BOOLEAN, s \in ContractShapes(k)}

\* The opcode labels acvm::compiler::compile can return for a circuit of n
\* opcodes: one label per opcode of the output, each Unresolved or the index
\* of an opcode of the input.
OpcodeLabels(n) == SeqUpTo({Unresolved} \cup (0..(n - 1)), MaxGates) \ {<<>>}

\* optimize_circuit: Err(NargoError::CompilationError) when an opcode cannot be
\* translated, else Ok((optimized circuit, opcode labels)).
optimize_circuit(circuit) ==
    {[ok |-> FALSE, circuit |-> NoCircuit, labels |-> <<>>]}
    \cup {[ok |-> TRUE, circuit |-> OptimizedCircuit(Len(l)), labels |-> l]
          : l \in OpcodeLabels(circuit.gates)}

\* DebugInfo::update_acir: position j of the new map takes the location the
\* old map has at ids[j].
update_acir(debug, ids) ==
    [j \in 1..Len(ids) |-> debug[ids[j] + 1]]

\* The indices are taken from the labels in reverse order.
opcode_ids_reversed(labels) ==
    [j \in 1..Len(labels) |-> labels[Len(labels) - j + 1]]

\* vecmap(opcode_labels, |label| match label { Resolved(index) => index }).
opcode_ids_of(labels) ==
    [j \in 1..Len(labels) |-> labels[j]]

\* A CRS is its capability: the largest circuit size it supports.
Covers(crs, circuit) == crs >= circuit.gates

\* updateFor: a CRS at least as capable as `crs` that covers `circuit`.
UpdateFor(crs, circuit) == Max(crs, circuit.gates)

\* update_common_reference_string: Ok(CRS) or Err (the backend cannot produce
\* the parameters).
update_common_reference_string(crs, circuit) ==
    {[ok |-> FALSE, crs |-> crs], [ok |-> TRUE, crs |-> UpdateFor(crs, circuit)]}

\* preprocess_program / preprocess_contract_function: Err when the backend
\* rejects the bytecode, else the artifact; of an artifact the model keeps
\* the name of what it was made from.
preprocess_program(crs, prog) ==
    {[ok |-> FALSE, artifact |-> [name |-> "main"]],
     [ok |-> TRUE, artifact |-> [name |-> "main"]]}

preprocess_contract_function(crs, f) ==
    {[ok |-> FALSE, artifact |-> [name |-> f.name]],
     [ok |-> TRUE, artifact |-> [name |-> f.name]]}

\* ------------------------------------------------------------------- trace
\* One call to a collaborator: its circuit and CRS arguments and its result.
Call(op, circuit, crs, ok, out_circuit, out_crs) ==
    [op |-> op, circuit |-> circuit, crs |-> crs, ok |-> ok,
     out_circuit |-> out_circuit, out_crs |-> out_crs]

Last(s) == s[Len(s)]

\* -------------------------------------------------------------- control flow
\* An Err that is noted while the loop around the call goes on.
RaiseAndGoOn(error, resume) == [pc |-> resume, outcome |-> error]

\* `?`: an Err leaves `run` with that error.  `resume` is where the loop
\* around the call would go on.
Raise(error, resume) == [pc |-> "exit", outcome |-> error]

\* `.expect(..)` on an Err and `unreachable!(..)`: the process panics.
Panic(resume) == [pc |-> "exit", outcome |-> "panic"]

\* The optimizer's circuit is dropped and the frontend's is kept.
AssignUnoptimized(old, optimized) == old

\* func.bytecode = optimize_circuit(backend, func.bytecode)?.0
\* program.circuit = optimized_circuit
AssignOptimized(old, optimized) == optimized

\* The updated CRS is bound to a new local that shadows the one of `run`.
AssignCrsShadowed(old, updated) == old

\* common_reference_string = update_common_reference_string(..)?
AssignCrs(old, updated) == updated

\* The CRS is read from the cache again for every package.
CarryCrsFromCache(crs, cached) == cached

\* `let mut common_reference_string` is declared before the for loop: the
\* next package starts from the CRS the previous one left, not the cached one.
CarryCrs(crs, cached) == crs

\* The update writes its result through to the cache.
CacheWrittenThrough(cached, updated) == updated

\* update_common_reference_string(..) is assigned to the local only: the cache
\* is as it was after an update.
CacheAfterUpdate(cached, updated) == cached

\* The cache is left as it was at the end of the build.
keep_cached_common_reference_string(cached, crs) == cached

\* write_cached_common_reference_string(&common_reference_string)
write_cached_common_reference_string(cached, crs) == crs

\* The results collected so far are put after the new one.
CollectInFront(results, result) == <<result>> \o results

\* try_vecmap collects the Ok results of its closure in the order of the items.
Collect(results, result) == Append(results, result)

\* The target directory is emptied before the artifacts are written.
save_to_clean_dir(dir, artifacts) == artifacts

\* save_program_to_file / save_contract_to_file: the artifacts are added to the
\* target directory.
save_to_file(dir, artifacts) == dir \o artifacts

\* report_errors: Err(errors) is reported and becomes Err(ReportedErrors);
\* on Ok((t, warnings)) the warnings are reported, the count report_all
\* returns is dropped and the result is Ok(t).  TRUE for Ok(t).
report_errors(result, deny) == result.ok

\* What report_errors hands to report_all: <<kind, deny_warnings>>.
report_all(result, deny) ==
    IF ~result.ok THEN {<<"errors", deny>>}
    ELSE IF result.warnings THEN {<<"warnings", deny>>}
    ELSE {}

\* PreprocessedContract { name, backend: String::from(BACKEND_IDENTIFIER), functions }
PreprocessedContract(c, functions) ==
    [name |-> c.name, backend |-> BACKEND_IDENTIFIER, functions |-> functions]

\* ------------------------------------------------------------------- Init
Init ==
    /\ deny_warnings \in BOOLEAN
    /\ backend \in Backends
    /\ cache \in 0..MaxGates
    /\ package_type = "none"
    /\ pc = "load"
    /\ outcome = "running"
    /\ package = 0
    /\ common_reference_string = 0
    /\ contracts = <<>>
    /\ contract = NoContract
    /\ func = NoFunc
    /\ preprocessed_contract_functions = <<>>
    /\ preprocessed_contracts = <<>>
    /\ program = NoProgram
    /\ files = <<>>
    /\ reported = {}
    /\ trace = <<>>
    /\ processed = {}
    /\ compiled = 0
    /\ latest_crs = 0
    /\ opcode_labels = <<>>
    /\ opcode_ids = <<>>
    /\ unresolved = FALSE
    /\ frontend_contracts = <<>>
    /\ crs_reads = 0
    /\ crs_writes = 0
    /\ cache_before = cache

\* ----------------------------------------------------------------- actions
\* let mut common_reference_string = read_cached_common_reference_string();
Load ==
    /\ pc = "load"
    /\ common_reference_string' = cache
    /\ latest_crs' = cache
    /\ crs_reads' = crs_reads + 1
    /\ pc' = "package"
    /\ UNCHANGED <<package_type, deny_warnings, backend, cache, outcome, package,
                   contracts, contract, func, preprocessed_contract_functions,
                   preprocessed_contracts, program, files, reported, trace, processed, compiled>>
    /\ UNCHANGED <<opcode_labels, opcode_ids, unresolved, frontend_contracts,
                   crs_writes, cache_before>>

\* for package in &workspace { prepare_package; if package.is_contract() .. else .. }
\* The workspace has at most MaxPackages packages; the type of a package is
\* drawn when the loop reaches it.
NextPackage ==
    /\ pc = "package"
    /\ package < MaxPackages
    /\ package' = package + 1
    /\ \E t \in PackageTypes :
        /\ package_type' = t
        /\ pc' = IF is_contract(t) THEN "compile_contracts" ELSE "compile_package"
    /\ common_reference_string' = CarryCrs(common_reference_string, cache)
    /\ trace' = <<>>
    /\ reported' = {}
    /\ frontend_contracts' = <<>>
    /\ UNCHANGED <<deny_warnings, backend, cache, outcome, contracts, contract, func,
                   preprocessed_contract_functions, preprocessed_contracts,
                   program, files, processed, compiled, latest_crs>>
    /\ UNCHANGED <<opcode_labels, opcode_ids, unresolved, crs_reads, crs_writes,
                   cache_before>>

\* The end of the for loop, after the last package of the workspace:
\* write_cached_common_reference_string(&common_reference_string); Ok(())
Persist ==
    /\ pc = "package"
    /\ package >= 1
    /\ cache' = write_cached_common_reference_string(cache, common_reference_string)
    /\ crs_writes' = crs_writes + 1
    /\ pc' = "exit"
    /\ outcome' = "Ok"
    /\ UNCHANGED <<package_type, deny_warnings, backend, package,
                   common_reference_string, contracts, contract, func,
                   preprocessed_contract_functions, preprocessed_contracts,
                   program, files, reported, trace, processed, compiled, latest_crs>>
    /\ UNCHANGED <<opcode_labels, opcode_ids, unresolved, frontend_contracts,
                   crs_reads, cache_before>>


\* compile_package up to report_errors: a Library package is refused, any
\* other is compiled by compile_main and its diagnostics are reported.
CompilePackage ==
    /\ pc = "compile_package"
    /\ IF is_library(package_type)
       THEN /\ pc' = Raise("LibraryCrate", "package").pc
            /\ outcome' = Raise("LibraryCrate", "package").outcome
            /\ UNCHANGED <<program, reported, trace>>
       ELSE \E r \in compile_main :
            /\ trace' = Append(trace, Call("compile_main", NoCircuit, 0, r.ok,
                                           r.program.circuit, 0))
            /\ reported' = reported \cup report_all(r, deny_warnings)
            /\ IF report_errors(r, deny_warnings)
               THEN /\ program' = r.program
                    /\ pc' = "optimize_program"
                    /\ UNCHANGED outcome
               ELSE /\ pc' = Raise("ReportedErrors", "package").pc
                    /\ outcome' = Raise("ReportedErrors", "package").outcome
                    /\ UNCHANGED program
    /\ UNCHANGED <<package_type, deny_warnings, backend, cache, package,
                   common_reference_string, contracts, contract, func,
                   preprocessed_contract_functions, preprocessed_contracts,
                   files, processed, compiled, latest_crs>>
    /\ UNCHANGED <<opcode_labels, opcode_ids, unresolved, frontend_contracts,
                   crs_reads, crs_writes, cache_before>>

\* The rest of compile_package: optimize_circuit(..).expect(..), the labels
\* turned into indices (unreachable!() on Unresolved), update_acir.
\* Labels that hold an Unresolved one are not looked at any further.
OptimizeProgram ==
    /\ pc = "optimize_program"
    /\ \E r \in {[ok |-> o.ok, circuit |-> o.circuit,
                   unresolved |-> HasUnresolved(o.labels),
                   labels |-> IF HasUnresolved(o.labels) THEN <<>> ELSE o.labels]
                  : o \in optimize_circuit(program.circuit)} :
        /\ unresolved' = r.unresolved
        /\ IF ~r.ok \/ r.unresolved
           THEN /\ trace' = Append(trace, Call("optimize_circuit", program.circuit, 0,
                                               r.ok, r.circuit, 0))
                /\ pc' = Panic("package").pc
                /\ outcome' = Panic("package").outcome
                /\ UNCHANGED <<program, processed, opcode_labels, opcode_ids>>
           ELSE /\ trace' = trace \o
                     <<Call("optimize_circuit", program.circuit, 0, r.ok, r.circuit, 0),
                       Call("update_acir", r.circuit, 0, TRUE, NoCircuit, 0)>>
                /\ opcode_labels' = r.labels
                /\ opcode_ids' = opcode_ids_of(r.labels)
                /\ program' = [circuit |-> AssignOptimized(program.circuit, r.circuit),
                               debug |-> update_acir(program.debug, opcode_ids_of(r.labels))]
                /\ processed' = processed \cup {r.circuit.gates}
                /\ pc' = "update_program"
                /\ UNCHANGED outcome
    /\ UNCHANGED <<package_type, deny_warnings, backend, cache, package,
                   common_reference_string, contracts, contract, func,
                   preprocessed_contract_functions, preprocessed_contracts,
                   files, reported, compiled, latest_crs>>
    /\ UNCHANGED <<frontend_contracts, crs_reads, crs_writes, cache_before>>

\* common_reference_string = update_common_reference_string(backend,
\*     &common_reference_string, &program.circuit).map_err(..)?;
UpdateCrsProgram ==
    /\ pc = "update_program"
    /\ \E r \in update_common_reference_string(common_reference_string, program.circuit) :
        /\ trace' = Append(trace, Call("update_common_reference_string", program.circuit,
                                       common_reference_string, r.ok, NoCircuit, r.crs))
        /\ IF r.ok
           THEN /\ common_reference_string' = AssignCrs(common_reference_string, r.crs)
                /\ cache' = CacheAfterUpdate(cache, r.crs)
                /\ latest_crs' = r.crs
                /\ pc' = "preprocess_program"
                /\ UNCHANGED outcome
           ELSE /\ pc' = Raise("CommonReferenceStringError", "package").pc
                /\ outcome' = Raise("CommonReferenceStringError", "package").outcome
                /\ UNCHANGED <<common_reference_string, cache, latest_crs>>
    /\ UNCHANGED <<package_type, deny_warnings, backend, package, contracts,
                   contract, func, preprocessed_contract_functions,
                   preprocessed_contracts, program, files, reported, processed, compiled>>
    /\ unresolved' = FALSE
    /\ UNCHANGED <<opcode_labels, opcode_ids, frontend_contracts,
                   crs_reads, crs_writes, cache_before>>

\* preprocess_program(backend, include_keys, &common_reference_string, program)
\*     .map_err(..)?;  save_program_to_file(&preprocessed_program, ..);
PreprocessProgram ==
    /\ pc = "preprocess_program"
    /\ \E r \in preprocess_program(common_reference_string, program) :
        /\ trace' = Append(trace, Call("preprocess_program", program.circuit,
                                       common_reference_string, r.ok, NoCircuit, 0))
        /\ IF r.ok
           THEN /\ files' = save_to_file(files, <<[kind |-> "program", package |-> package,
                                                  name |-> 0, artifact |-> r.artifact]>>)
                /\ program' = NoProgram
                /\ opcode_labels' = <<>>
                /\ opcode_ids' = <<>>
                /\ pc' = "package"
                /\ UNCHANGED outcome
           ELSE /\ pc' = Raise("ProofSystemCompilerError", "package").pc
                /\ outcome' = Raise("ProofSystemCompilerError", "package").outcome
                /\ UNCHANGED <<files, program, opcode_labels, opcode_ids>>
    /\ UNCHANGED <<package_type, deny_warnings, backend, cache, package,
                   common_reference_string, contracts, contract, func,
                   preprocessed_contract_functions, preprocessed_contracts,
                   reported, processed, compiled, latest_crs>>
    /\ UNCHANGED <<unresolved, frontend_contracts, crs_reads, crs_writes, cache_before>>

\* let result = compile_contracts(..);
\* let contracts = report_errors(result, &context, deny_warnings)?;
CompileContracts ==
    /\ pc = "compile_contracts"
    /\ \E r \in compile_contracts(MaxFunctions - compiled) :
        /\ compiled' = compiled + SumSeq([c \in 1..Len(r.contracts) |->
                                              Len(r.contracts[c].functions)])
        /\ trace' = Append(trace, Call("compile_contracts", NoCircuit, 0, r.ok,
                                       NoCircuit, 0))
        /\ reported' = reported \cup report_all(r, deny_warnings)
        /\ IF report_errors(r, deny_warnings)
           THEN /\ contracts' = r.contracts
                /\ frontend_contracts' = r.contracts
                /\ preprocessed_contracts' = <<>>
                /\ pc' = "contract"
                /\ UNCHANGED outcome
           ELSE /\ pc' = Raise("ReportedErrors", "package").pc
                /\ outcome' = Raise("ReportedErrors", "package").outcome
                /\ UNCHANGED <<contracts, frontend_contracts, preprocessed_contracts>>
    /\ UNCHANGED <<package_type, deny_warnings, backend, cache, package,
                   common_reference_string, contract, func,
                   preprocessed_contract_functions, program, files, processed, latest_crs>>
    /\ UNCHANGED <<opcode_labels, opcode_ids, unresolved, crs_reads, crs_writes,
                   cache_before>>

\* The outer try_vecmap(contracts, |contract| ..): the next contract, or the
\* end of the list.
NextContract ==
    /\ pc = "contract"
    /\ IF contracts = <<>>
       THEN /\ pc' = "save_contracts"
            /\ UNCHANGED <<contracts, contract, preprocessed_contract_functions>>
       ELSE /\ contract' = Head(contracts)
            /\ contracts' = Tail(contracts)
            /\ preprocessed_contract_functions' = <<>>
            /\ pc' = "function"
    /\ UNCHANGED <<package_type, deny_warnings, backend, cache, outcome, package,
                   common_reference_string, func, preprocessed_contracts, program,
                   files, reported, trace, processed, compiled, latest_crs>>
    /\ UNCHANGED <<opcode_labels, opcode_ids, unresolved, frontend_contracts,
                   crs_reads, crs_writes, cache_before>>

\* The inner try_vecmap(contract.functions, |mut func| ..): the next function,
\* or Ok(PreprocessedContract { .. }) at the end of the list.
NextFunction ==
    /\ pc = "function"
    /\ IF contract.functions = <<>>
       THEN /\ preprocessed_contracts' =
                  Collect(preprocessed_contracts,
                          PreprocessedContract(contract, preprocessed_contract_functions))
            /\ contract' = NoContract
            /\ preprocessed_contract_functions' = <<>>
            /\ trace' = <<>>
            /\ pc' = "contract"
            /\ UNCHANGED func
       ELSE /\ \E n \in 1..MaxGates :
                    func' = ContractFunction(Head(contract.functions), n)
            /\ contract' = [contract EXCEPT !.functions = Tail(@)]
            /\ trace' = <<>>
            /\ pc' = "optimize_function"
            /\ UNCHANGED <<preprocessed_contracts, preprocessed_contract_functions>>
    /\ UNCHANGED <<package_type, deny_warnings, backend, cache, outcome, package,
                   common_reference_string, contracts, program, files, reported,
                   processed, compiled, latest_crs>>
    /\ UNCHANGED <<opcode_labels, opcode_ids, unresolved, frontend_contracts,
                   crs_reads, crs_writes, cache_before>>

\* func.bytecode = optimize_circuit(backend, func.bytecode)?.0;
\* `.0` keeps the circuit of the result and drops its labels.
OptimizeFunction ==
    /\ pc = "optimize_function"
    /\ \E r \in {[ok |-> o.ok, circuit |-> o.circuit,
                   unresolved |-> HasUnresolved(o.labels)]
                  : o \in optimize_circuit(func.bytecode)} :
        /\ trace' = Append(trace, Call("optimize_circuit", func.bytecode, 0, r.ok,
                                       r.circuit, 0))
        /\ unresolved' = r.unresolved
        /\ IF r.ok
           THEN /\ func' = [func EXCEPT !.bytecode = AssignOptimized(@, r.circuit)]
                /\ processed' = processed \cup {r.circuit.gates}
                /\ pc' = "update_function"
                /\ UNCHANGED outcome
           ELSE /\ pc' = Raise("CompilationError", "function").pc
                /\ outcome' = Raise("CompilationError", "function").outcome
                /\ UNCHANGED <<func, processed>>
    /\ UNCHANGED <<package_type, deny_warnings, backend, cache, package,
                   common_reference_string, contracts, contract,
                   preprocessed_contract_functions, preprocessed_contracts, program,
                   files, reported, compiled, latest_crs>>
    /\ UNCHANGED <<opcode_labels, opcode_ids, frontend_contracts, crs_reads,
                   crs_writes, cache_before>>

\* common_reference_string = update_common_reference_string(backend,
\*     &common_reference_string, &func.bytecode).map_err(..)?;
UpdateCrsFunction ==
    /\ pc = "update_function"
    /\ \E r \in update_common_reference_string(common_reference_string, func.bytecode) :
        /\ trace' = Append(trace, Call("update_common_reference_string", func.bytecode,
                                       common_reference_string, r.ok, NoCircuit, r.crs))
        /\ IF r.ok
           THEN /\ common_reference_string' = AssignCrs(common_reference_string, r.crs)
                /\ cache' = CacheAfterUpdate(cache, r.crs)
                /\ latest_crs' = r.crs
                /\ pc' = "preprocess_function"
                /\ UNCHANGED outcome
           ELSE /\ pc' = Raise("CommonReferenceStringError", "function").pc
                /\ outcome' = Raise("CommonReferenceStringError", "function").outcome
                /\ UNCHANGED <<common_reference_string, cache, latest_crs>>
    /\ UNCHANGED <<package_type, deny_warnings, backend, package, contracts,
                   contract, func, preprocessed_contract_functions,
                   preprocessed_contracts, program, files, reported, processed, compiled>>
    /\ unresolved' = FALSE
    /\ UNCHANGED <<opcode_labels, opcode_ids, frontend_contracts,
                   crs_reads, crs_writes, cache_before>>

\* preprocess_contract_function(backend, include_keys, &common_reference_string,
\*     func).map_err(CliError::ProofSystemCompilerError)
PreprocessFunction ==
    /\ pc = "preprocess_function"
    /\ \E r \in preprocess_contract_function(common_reference_string, func) :
        /\ trace' = Append(trace, Call("preprocess_contract_function", func.bytecode,
                                       common_reference_string, r.ok, NoCircuit, 0))
        /\ IF r.ok
           THEN /\ preprocessed_contract_functions' =
                      Collect(preprocessed_contract_functions, r.artifact)
                /\ func' = NoFunc
                /\ pc' = "function"
                /\ UNCHANGED outcome
           ELSE /\ pc' = Raise("ProofSystemCompilerError", "function").pc
                /\ outcome' = Raise("ProofSystemCompilerError", "function").outcome
                /\ UNCHANGED <<preprocessed_contract_functions, func>>
    /\ UNCHANGED <<package_type, deny_warnings, backend, cache, package,
                   common_reference_string, contracts, contract,
                   preprocessed_contracts, program, files, reported, processed, compiled, latest_crs>>
    /\ UNCHANGED <<opcode_labels, opcode_ids, unresolved, frontend_contracts,
                   crs_reads, crs_writes, cache_before>>

\* for contract in preprocessed_contracts? { save_contract_to_file(..) }
SaveContracts ==
    /\ pc = "save_contracts"
    /\ files' = save_to_file(files, [i \in 1..Len(preprocessed_contracts) |->
                    [kind |-> "contract", package |-> package,
                     name |-> preprocessed_contracts[i].name,
                     artifact |-> preprocessed_contracts[i]]])
    /\ preprocessed_contracts' = <<>>
    /\ pc' = "package"
    /\ UNCHANGED <<package_type, deny_warnings, backend, cache, outcome, package,
                   common_reference_string, contracts, contract, func,
                   preprocessed_contract_functions, program, reported, trace,
                   processed, compiled, latest_crs>>
    /\ UNCHANGED <<opcode_labels, opcode_ids, unresolved, frontend_contracts,
                   crs_reads, crs_writes, cache_before>>

Next ==
    \/ Load
    \/ NextPackage
    \/ CompilePackage
    \/ OptimizeProgram
    \/ UpdateCrsProgram
    \/ PreprocessProgram
    \/ CompileContracts
    \/ NextContract
    \/ NextFunction
    \/ OptimizeFunction
    \/ UpdateCrsFunction
    \/ PreprocessFunction
    \/ SaveContracts
    \/ Persist

Spec == Init /\ [][Next]_vars

\* ------------------------------------------------------------------ claims
IsOptimize(c) == c.op = "optimize_circuit"
IsUpdate(c) == c.op = "update_common_reference_string"
IsPreprocess(c) == c.op \in {"preprocess_program", "preprocess_contract_function"}

\* C1: every update_common_reference_string call comes after a successful
\* optimize_circuit call for the same program or function and is given the
\* circuit that call returned, not the circuit that went into it.
C1_UpdateGetsOptimizedCircuit ==
    \A i \in 1..Len(trace) :
        IsUpdate(trace[i]) =>
            \E j \in 1..(i - 1) :
                /\ IsOptimize(trace[j])
                /\ trace[j].ok
                /\ trace[i].circuit = trace[j].out_circuit
                /\ trace[i].circuit # trace[j].circuit

\* A contract function whose optimization changed the number of opcodes has
\* had its CRS update.
C1_Witness ==
    /\ package_type = "Contract"
    /\ \E i \in 1..Len(trace), j \in 1..Len(trace) :
        /\ IsUpdate(trace[i]) /\ trace[i].ok
        /\ IsOptimize(trace[j])
        /\ trace[j].circuit.gates # trace[j].out_circuit.gates

\* C2: every preprocess call comes right after a successful CRS update for the
\* same circuit, with no other call in between, and is given the CRS that
\* update returned.
C2_PreprocessGetsUpdatedCrs ==
    \A i \in 1..Len(trace) :
        IsPreprocess(trace[i]) =>
            /\ i > 1
            /\ IsUpdate(trace[i - 1])
            /\ trace[i - 1].ok
            /\ trace[i - 1].circuit = trace[i].circuit
            /\ trace[i].crs = trace[i - 1].out_crs

\* A circuit was preprocessed after its update had grown the CRS.
C2_Witness ==
    \E i \in 2..Len(trace) :
        /\ IsPreprocess(trace[i]) /\ trace[i].ok
        /\ trace[i - 1].out_crs > trace[i - 1].crs

\* C3: at every preprocess call the CRS supplied covers the circuit being
\* preprocessed.
C3_PreprocessCrsCoversCircuit ==
    \A i \in 1..Len(trace) :
        IsPreprocess(trace[i]) => Covers(trace[i].crs, trace[i].circuit)

\* The first package is a contract of functions [small, large], the loaded CRS
\* covered only small, and large has been preprocessed.
C3_Witness ==
    /\ package = 1
    /\ package_type = "Contract"
    /\ cache = 1
    /\ processed = {1, 2}
    /\ Len(preprocessed_contract_functions) = 2
    /\ trace # <<>>
    /\ IsPreprocess(Last(trace)) /\ Last(trace).ok
    /\ Last(trace).circuit.gates = 2

\* C4: once loaded, the CRS in flight is the CRS the latest successful update
\* returned (the loaded CRS before the first update), within a contract and
\* from one package to the next, so that is what every update is given; no
\* update returns less than it was given, and no step of the build lowers the
\* CRS in flight.
C4_CrsFoldedThroughWorkspace ==
    /\ [](pc # "load" => common_reference_string = latest_crs)
    /\ [](\A i \in 1..Len(trace) :
            (IsUpdate(trace[i]) /\ trace[i].ok) => trace[i].out_crs >= trace[i].crs)
    /\ [][common_reference_string' >= common_reference_string]_vars

\* The second package's update was given a CRS that an update of the first
\* package had grown beyond the cached one.
C4_Witness ==
    /\ package = 2
    /\ trace # <<>>
    /\ IsUpdate(Last(trace)) /\ Last(trace).ok
    /\ Last(trace).crs > cache

\* C5: when the build has finished successfully, the CRS written to the cache
\* covers every circuit the optimizer returned in the build.
C5_PersistedCrsCoversAll ==
    outcome = "Ok" => \A g \in processed : cache >= g

\* A build of two packages with circuits of different sizes has finished.
C5_Witness ==
    /\ outcome = "Ok"
    /\ package = 2
    /\ processed = {1, 2}
    /\ Len(files) >= 2

\* C6: a Library package ends the build with LibraryCrate: no call to the
\* frontend, the optimizer, the CRS manager or the preprocessor is made for
\* it, nothing is reported and no file is written for it.
C6_LibraryRejected ==
    package_type = "Library" =>
        /\ pc = "compile_package" \/ (pc = "exit" /\ outcome = "LibraryCrate")
        /\ trace = <<>>
        /\ reported = {}
        /\ \A k \in 1..Len(files) : files[k].package # package

\* The only package of the workspace is a Library and the build has ended.
C6_Witness ==
    /\ package = 1
    /\ package_type = "Library"
    /\ pc = "exit"
    /\ outcome = "LibraryCrate"
    /\ files = <<>>

\* C7: with deny_warnings, a package whose frontend compile returned warnings
\* gets no artifact; without deny_warnings the warnings are reported and the
\* package is not failed for them.
C7_DenyWarningsFailsPackage ==
    /\ <<"warnings", TRUE>> \in reported =>
          \A k \in 1..Len(files) : files[k].package # package
    /\ <<"warnings", FALSE>> \in reported => outcome # "ReportedErrors"

\* C8: when a contract function is about to be preprocessed, its debug map has
\* been rewritten since its optimization and has one entry per opcode of the
\* optimized circuit.
C8_ContractDebugRewritten ==
    pc = "preprocess_function" =>
        /\ \E j \in 1..Len(trace) : trace[j].op = "update_acir"
        /\ Len(func.debug) = func.bytecode.gates

\* C9: when optimize_circuit fails, for a program as for a contract function,
\* the build ends there with the CompilationError value and not with a panic.
C9_OptimizerFailureIsReported ==
    \A i \in 1..Len(trace) :
        (IsOptimize(trace[i]) /\ ~trace[i].ok) =>
            /\ i = Len(trace)
            /\ pc = "exit"
            /\ outcome = "CompilationError"

\* C10: after a failed CRS update or a failed preprocess call the build has
\* returned that error; the failed call is the last call made and no step
\* (no call, no file, no CRS write) follows.
C10_CrsAndBackendFailuresAreFatal ==
    outcome \in {"CommonReferenceStringError", "ProofSystemCompilerError"} =>
        /\ pc = "exit"
        /\ ~ENABLED Next
        /\ trace # <<>>
        /\ ~Last(trace).ok
        /\ \/ outcome = "CommonReferenceStringError" /\ IsUpdate(Last(trace))
           \/ outcome = "ProofSystemCompilerError" /\ IsPreprocess(Last(trace))

\* Preprocessing failed for a function of the first package while its
\* contract had a function left and the workspace could hold more packages.
C10_Witness ==
    /\ outcome = "ProofSystemCompilerError"
    /\ package = 1
    /\ package < MaxPackages
    /\ contract.functions # <<>>

\* The errors `run` can return.
Errors == {"LibraryCrate", "ReportedErrors", "CompilationError",
           "CommonReferenceStringError", "ProofSystemCompilerError"}

NamesOf(fs) == [j \in 1..Len(fs) |-> fs[j].name]

MaxOf(S) == CHOOSE x \in S : \A y \in S : x >= y

\* C11: a contract artifact, collected or written, has as many functions as
\* the frontend returned for that contract; and when the CRS update or the
\* preprocessing of a contract function has failed, that call is the last one
\* made, no step follows (the functions after it are left as the frontend
\* returned them) and no file has been written for the package.
C11_NoPartialContract ==
    /\ \A i \in 1..Len(preprocessed_contracts) :
          Len(preprocessed_contracts[i].functions) = Len(frontend_contracts[i].functions)
    /\ \A k \in 1..Len(files) :
          (files[k].kind = "contract" /\ files[k].package = package) =>
              \E c \in 1..Len(frontend_contracts) :
                  /\ frontend_contracts[c].name = files[k].name
                  /\ Len(files[k].artifact.functions) =
                         Len(frontend_contracts[c].functions)
    /\ (/\ package_type = "Contract"
        /\ outcome \in {"CommonReferenceStringError", "ProofSystemCompilerError"}) =>
          /\ ~ENABLED Next
          /\ func # NoFunc
          /\ ~Last(trace).ok
          /\ \A k \in 1..Len(files) : files[k].package # package

\* The second function of a contract failed after the first had been
\* preprocessed, and nothing was written.
C11_Witness ==
    /\ outcome \in {"CommonReferenceStringError", "ProofSystemCompilerError"}
    /\ Len(preprocessed_contract_functions) = 1
    /\ func.name = 2
    /\ files = <<>>

\* C12: after a package has failed with LibraryCrate or with a frontend
\* compilation error the loop over the packages goes on: the next package can
\* be taken, or the build can end if that was the last one.
C12_FrontendFailuresArePackageScoped ==
    outcome \in {"LibraryCrate", "ReportedErrors"} =>
        ENABLED (NextPackage \/ Persist)

\* C13: when the labels optimize_circuit returned hold an Unresolved one, for
\* a program as for a contract function, the build has panicked: the
\* optimizer call is the last call made and no step follows.
C13_UnresolvedLabelAborts ==
    unresolved =>
        /\ pc = "exit"
        /\ outcome = "panic"
        /\ IsOptimize(Last(trace))
        /\ ~ENABLED Next

\* C14: the cached CRS is read exactly once, before anything is compiled or
\* optimized; it is written exactly once by a build that gets through its last
\* package, at the very end, and never before; what is written is the CRS the
\* latest successful update returned, or the loaded one if there was none.
C14_CrsLifecycle ==
    /\ crs_reads = (IF pc = "load" THEN 0 ELSE 1)
    /\ pc = "load" => (package = 0 /\ trace = <<>> /\ processed = {})
    /\ crs_writes = (IF outcome = "Ok" THEN 1 ELSE 0)
    /\ crs_writes = 1 =>
          /\ pc = "exit"
          /\ package >= 1
          /\ ~ENABLED Next
          /\ cache = latest_crs

\* A build of two packages has ended and has written a CRS that an update
\* had grown.
C14_Witness ==
    /\ outcome = "Ok"
    /\ package = 2
    /\ crs_writes = 1
    /\ cache > cache_before

\* C15: every contract artifact written names the backend the build was run
\* with.
C15_ArtifactNamesBuildBackend ==
    \A k \in 1..Len(files) :
        files[k].kind = "contract" => files[k].artifact.backend = backend

\* C16: once a program has been optimized with all labels Resolved, the
\* indices handed to update_acir are one per opcode of the optimized circuit,
\* entry j being the index label j carries, an index of the circuit that went
\* into the optimizer; the rewritten debug map has one entry per opcode of the
\* optimized circuit and entry j is the location of the original opcode
\* opcode_ids[j].
C16_DebugMapFollowsLabels ==
    pc \in {"update_program", "preprocess_program"} =>
        /\ ~HasUnresolved(opcode_labels)
        /\ Len(opcode_ids) = program.circuit.gates
        /\ \A j \in 1..Len(opcode_ids) : opcode_ids[j] = opcode_labels[j]
        /\ Len(program.debug) = program.circuit.gates
        /\ \E i \in 1..Len(trace) :
              /\ IsOptimize(trace[i]) /\ trace[i].ok
              /\ \A j \in 1..Len(opcode_ids) :
                    /\ opcode_ids[j] \in 0..(trace[i].circuit.gates - 1)
                    /\ program.debug[j] =
                          FrontendDebug(trace[i].circuit.gates)[opcode_ids[j] + 1]

\* The optimizer swapped the two opcodes of a program.
C16_Witness ==
    /\ pc = "preprocess_program"
    /\ opcode_labels = <<1, 0>>
    /\ program.debug = <<1, 0>>

\* C17: a contract artifact, collected or written, holds the functions the
\* frontend returned for that contract, each once and in that order; while a
\* contract is processed, the functions before the one in hand have all been
\* preprocessed, in order, and the ones after it have not been touched.
C17_ContractFunctionsInOrder ==
    /\ \A i \in 1..Len(preprocessed_contracts) :
          /\ preprocessed_contracts[i].name = frontend_contracts[i].name
          /\ NamesOf(preprocessed_contracts[i].functions) =
                 frontend_contracts[i].functions
    /\ \A k \in 1..Len(files) :
          (files[k].kind = "contract" /\ files[k].package = package) =>
              \E c \in 1..Len(frontend_contracts) :
                  /\ frontend_contracts[c].name = files[k].name
                  /\ NamesOf(files[k].artifact.functions) =
                         frontend_contracts[c].functions
    /\ pc \in {"function", "optimize_function", "update_function",
               "preprocess_function"} =>
          \E c \in 1..Len(frontend_contracts) :
              /\ frontend_contracts[c].name = contract.name
              /\ frontend_contracts[c].functions =
                     NamesOf(preprocessed_contract_functions)
                     \o (IF func = NoFunc THEN <<>> ELSE <<func.name>>)
                     \o contract.functions

\* A build has ended well and has written a contract of two functions.
C17_Witness ==
    /\ outcome = "Ok"
    /\ \E k \in 1..Len(files) :
          /\ files[k].kind = "contract"
          /\ Len(files[k].artifact.functions) = 2

\* C18: an update for a circuit that needs no more than the CRS it is given
\* returns that CRS; and whenever no circuit waits for its update, the CRS in
\* flight is the largest of the loaded CRS and the circuits optimized so far,
\* whatever their order.
C18_CrsIsLargestSeen ==
    /\ \A i \in 1..Len(trace) :
          (/\ IsUpdate(trace[i]) /\ trace[i].ok
           /\ trace[i].circuit.gates <= trace[i].crs) =>
              trace[i].out_crs = trace[i].crs
    /\ (/\ pc \notin {"load", "update_program", "update_function"}
        /\ outcome # "CommonReferenceStringError") =>
          common_reference_string = MaxOf({cache_before} \cup processed)

\* A circuit no larger than an earlier one that had grown the CRS has had its
\* update.
C18_Witness ==
    /\ trace # <<>>
    /\ IsUpdate(Last(trace)) /\ Last(trace).ok
    /\ Last(trace).crs > cache_before
    /\ Last(trace).circuit.gates <= Last(trace).crs
    /\ Cardinality(processed) = 2

\* C19: no step of the build removes or changes a file already written, and
\* the step that ends the build with an error or a panic writes nothing.
C19_EarlierArtifactsRemain ==
    [][/\ Len(files') >= Len(files)
       /\ SubSeq(files', 1, Len(files)) = files
       /\ (outcome' \notin {"running", "Ok"} => files' = files)]_vars

\* The second package failed and the file of the first is there.
C19_Witness ==
    /\ outcome \in Errors
    /\ package = 2
    /\ files # <<>>
    /\ files[1].package = 1

\* C20: when the build has ended with an error, the cache has not been
\* written: it holds what it held before the build.
C20_FailedBuildLeavesCache ==
    outcome \in Errors => (crs_writes = 0 /\ cache = cache_before)

\* The second package failed after the first had grown the CRS in flight.
C20_Witness ==
    /\ outcome \in Errors
    /\ package = 2
    /\ common_reference_string > cache_before

====
